---- MODULE Spec2Model ----
(***************************************************************************)
(* Model of src/app.py: a Streamlit script that reads a vehicle listing    *)
(* CSV into a pandas DataFrame, cleans it with cleaning(), and draws one   *)
(* of three plotly charts when its button is pressed.                      *)
(*                                                                         *)
(* A DataFrame is a sequence of rows, a row a record of cells.  A cell is  *)
(* a record [kind, num, frac, str]:                                        *)
(*   kind "nan"       a missing value (NaN)                                *)
(*   kind "float"     the float num.frac (frac in tenths)                  *)
(*   kind "int"       the integer num                                      *)
(*   kind "str"       the string str                                       *)
(*   kind "datetime"  the Timestamp parsed from the string str             *)
(*   kind "nat"       NaT, the missing Timestamp                           *)
(* DataFrames are objects: heap is the sequence of the DataFrames that     *)
(* exist, and df, df_clean are references (indices into heap, 0 = the name *)
(* is not bound).                                                          *)
(***************************************************************************)
EXTENDS Integers, Sequences, FiniteSets, TLC

VARIABLES file, pc, heap, df, df_clean, before, err, clicked, rendered,
          loads, cleans, runs

vars == <<file, pc, heap, df, df_clean, before, err, clicked, rendered,
          loads, cleans, runs>>

\* Largest number of rows of a table.
MaxRows == 2
\* Largest number of script runs in one session (the first run and the reruns).
MaxRuns == 3

-----------------------------------------------------------------------------
(* Cells *)

NaN == [kind |-> "nan", num |-> 0, frac |-> 0, str |-> ""]
NaT == [kind |-> "nat", num |-> 0, frac |-> 0, str |-> ""]
Flt(n, f) == [kind |-> "float", num |-> n, frac |-> f, str |-> ""]
IntV(n) == [kind |-> "int", num |-> n, frac |-> 0, str |-> ""]
Str(s) == [kind |-> "str", num |-> 0, frac |-> 0, str |-> s]
Timestamp(s) == [kind |-> "datetime", num |-> 0, frac |-> 0, str |-> s]

\* pandas' isna(): NaN and NaT are the missing values.
IsNa(c) == c.kind \in {"nan", "nat"}

IsNumber(c) == c.kind \in {"int", "float"}

\* c == 1 in Python: the int 1 and the float 1.0, not the string "1".
EqualsOne(c) == IsNumber(c) /\ c.num = 1 /\ c.frac = 0

\* The strings dateutil parses as a date.
DateStrings == {"2018-06-23", "2019-01-07"}

Range(s) == {s[i] : i \in DOMAIN s}

-----------------------------------------------------------------------------
(* cleaning(data), src/app.py lines 12-53 *)

\* Variant: replace({1: 'Yes'}), the missing value is not replaced.
Replace4wdCell_OnlyOne(c) == IF EqualsOne(c) THEN Str("Yes") ELSE c

\* Variant: np.where(x == 1, 'Yes', 'No'), everything but 1 becomes "No".
Replace4wdCell_ElseNo(c) == IF EqualsOne(c) THEN Str("Yes") ELSE Str("No")

\* Series.replace({1: 'Yes', np.nan: 'No'}) on one cell: every other value
\* (0, a string, ...) is left as it is.
Replace4wdCell(c) ==
    IF EqualsOne(c) THEN Str("Yes")
    ELSE IF c.kind = "nan" THEN Str("No")
    ELSE c

\* line 26
Replace4wd(t) ==
    [i \in DOMAIN t |-> [t[i] EXCEPT !.is_4wd = Replace4wdCell(@)]]

\* The value fillna(0) writes: 0.0 in a float64 column, the int 0 in an
\* object or int64 column.
Zero(t, col) ==
    IF \E i \in DOMAIN t : t[i][col].kind \in {"str", "int"}
    THEN IntV(0) ELSE Flt(0, 0)

\* data[col] = data[col].fillna(v)
FillNa(t, col, v) ==
    [i \in DOMAIN t |-> [t[i] EXCEPT ![col] = IF IsNa(@) THEN v ELSE @]]

\* Variant: cylinders is not zero-filled, and is left to the mode fill.
FillZeros_NoCylinders(t) ==
    LET a == FillNa(t, "odometer", Zero(t, "odometer"))
    IN  FillNa(a, "model_year", Zero(a, "model_year"))

\* lines 29-31
FillZeros(t) ==
    LET a == FillNa(t, "odometer", Zero(t, "odometer"))
        b == FillNa(a, "cylinders", Zero(a, "cylinders"))
    IN  FillNa(b, "model_year", Zero(b, "model_year"))

\* Variant: paint_color is not filled.
FillPaint_Skip(t) == t

\* line 34
FillPaint(t) == FillNa(t, "paint_color", Str("random"))

\* The order Series.mode() sorts its result in: numbers by value; a string
\* sorts after the numbers.
CellLeq(a, b) ==
    IF IsNumber(a) /\ IsNumber(b)
    THEN a.num * 10 + a.frac <= b.num * 10 + b.frac
    ELSE IsNumber(a) \/ ~IsNumber(b)

\* x.mode(): the most frequent non-missing values of the cells xs.
Modes(xs) ==
    LET vals == {c \in Range(xs) : ~IsNa(c)}
        Count(v) == Cardinality({i \in DOMAIN xs : xs[i] = v})
    IN  {v \in vals : \A w \in vals : Count(w) <= Count(v)}

\* x.mode()[0] if not x.mode().empty else np.nan
ModeOrNaN(xs) ==
    IF Modes(xs) = {} THEN NaN
    ELSE CHOOSE v \in Modes(xs) : \A w \in Modes(xs) : CellLeq(v, w)

\* Variant: transform(lambda x: x.mode()[0]), every row gets the mode of its
\* model.
ModeFill_All(t) ==
    [i \in DOMAIN t |->
        IF IsNa(t[i].model)
        THEN [t[i] EXCEPT !.cylinders = NaN]
        ELSE LET g == {j \in DOMAIN t : t[j].model = t[i].model}
                 x == [j \in g |-> t[j].cylinders]
             IN  [t[i] EXCEPT !.cylinders = ModeOrNaN(x)]]

\* lines 37-39: data.groupby("model")['cylinders'].transform(lambda x:
\* x.fillna(...)).  groupby drops the rows whose key is missing (dropna=True)
\* and transform gives them NaN; every other row is filled within the rows
\* that share its model.
ModeFill(t) ==
    [i \in DOMAIN t |->
        IF IsNa(t[i].model)
        THEN [t[i] EXCEPT !.cylinders = NaN]
        ELSE LET g == {j \in DOMAIN t : t[j].model = t[i].model}
                 x == [j \in g |-> t[j].cylinders]
             IN  [t[i] EXCEPT !.cylinders =
                        IF IsNa(@) THEN ModeOrNaN(x) ELSE @]]

\* pd.to_datetime on one cell; "error" stands for the exception it raises.
ToDatetimeCell(c) ==
    IF c.kind = "str"
    THEN IF c.str \in DateStrings THEN Timestamp(c.str) ELSE Str("error")
    ELSE IF c.kind = "nan" THEN NaT
    ELSE c

DateParses(c) == c.kind = "str" => c.str \in DateStrings

\* line 45
ToDatetime(t) ==
    [i \in DOMAIN t |-> [t[i] EXCEPT !.date_posted = ToDatetimeCell(@)]]

\* astype(int) raises on a missing value and on a string that is no number.
CanInt(c) == IsNumber(c)

\* astype(int) on one cell: a float is truncated.
AsIntCell(c) == IntV(c.num)

\* data[col] = data[col].astype(int)
AsInt(t, col) == [i \in DOMAIN t |-> [t[i] EXCEPT ![col] = AsIntCell(@)]]

ColCanInt(t, col) == \A i \in DOMAIN t : CanInt(t[i][col])

Raised(e, t) == [err |-> e, data |-> t]

\* Variant: cleaning works on data.copy(), so that a call that raises leaves
\* the DataFrame it was given as it was.
cleaning_OnCopy(t) ==
    LET s4 == ModeFill(FillPaint(FillZeros(Replace4wd(t))))
        s5 == ToDatetime(s4)
        s8 == AsInt(AsInt(AsInt(s5, "odometer"), "cylinders"), "model_year")
    IN  IF \E i \in DOMAIN s4 : ~DateParses(s4[i].date_posted)
        THEN Raised("DateParseError", t)
        ELSE IF \E col \in {"odometer", "cylinders", "model_year"} :
                    ~ColCanInt(s5, col)
        THEN Raised("ValueError", t)
        ELSE Raised("", s8)

\* The whole of cleaning(): the exception raised ("" when it returns) and the
\* contents of the DataFrame it was given when it returns or raises.  Every
\* assignment data[col] = ... writes into that DataFrame.
cleaning(t) ==
    LET s4 == ModeFill(FillPaint(FillZeros(Replace4wd(t))))
        s5 == ToDatetime(s4)
        s6 == AsInt(s5, "odometer")
        s7 == AsInt(s6, "cylinders")
        s8 == AsInt(s7, "model_year")
    IN  IF \E i \in DOMAIN s4 : ~DateParses(s4[i].date_posted)
        THEN Raised("DateParseError", s4)
        ELSE IF ~ColCanInt(s5, "odometer") THEN Raised("ValueError", s5)
        ELSE IF ~ColCanInt(s6, "cylinders") THEN Raised("ValueError", s6)
        ELSE IF ~ColCanInt(s7, "model_year") THEN Raised("ValueError", s7)
        ELSE Raised("", s8)

-----------------------------------------------------------------------------
(* Chart builders, src/app.py lines 68-153 *)

RECURSIVE Gcd(_, _)
Gcd(a, b) == IF b = 0 THEN a ELSE Gcd(b, a % b)

RECURSIVE SumPrice(_, _)
SumPrice(t, rows) ==
    IF rows = {} THEN 0
    ELSE LET i == CHOOSE j \in rows : TRUE
         IN  t[i].price.num + SumPrice(t, rows \ {i})

\* Variant: sum() in place of mean().
MeanPrice_Sum(t, rows) ==
    LET have == {i \in rows : ~IsNa(t[i].price)}
    IN  IF have = {} THEN [num |-> 0, den |-> 0]
        ELSE [num |-> SumPrice(t, have), den |-> 1]

\* Series.mean() of the price of the rows `rows`: missing prices are skipped;
\* the mean is the fraction num/den in lowest terms, and NaN (den = 0) when
\* no price is left.
MeanPrice(t, rows) ==
    LET have == {i \in rows : ~IsNa(t[i].price)}
        n == Cardinality(have)
        s == SumPrice(t, have)
        g == Gcd(s, n)
    IN  IF n = 0 THEN [num |-> 0, den |-> 0]
        ELSE [num |-> s \div g, den |-> n \div g]

\* The strings that occur as group keys, in sorted order: groupby sorts its keys.
KeyOrder == <<"excellent", "fair", "good", "sedan", "suv", "truck">>

\* data.groupby(col, as_index=False)["price"].mean(): one row per distinct
\* non-missing value of col (groupby drops a missing key), in key order.
GroupMean(t, col) ==
    LET keys == {t[i][col].str : i \in {j \in DOMAIN t : ~IsNa(t[j][col])}}
        sorted == SelectSeq(KeyOrder, LAMBDA k : k \in keys)
    IN  [n \in DOMAIN sorted |->
            LET m == MeanPrice(t, {i \in DOMAIN t :
                        ~IsNa(t[i][col]) /\ t[i][col].str = sorted[n]})
            IN  [key |-> sorted[n], num |-> m.num, den |-> m.den]]

\* A plotly figure: its kind, its marks (points or bars) and its styling.
Figure(k, o, c, m) == [kind |-> k, orientation |-> o, color |-> c, marks |-> m]

\* lines 68-98: one point per row (opacity 0.6, colour by condition).
plot_scatter(data) ==
    Figure("scatter", "v", "condition",
        [i \in DOMAIN data |->
            [x |-> data[i].odometer, y |-> data[i].price,
             color |-> data[i].condition, size |-> data[i].model_year,
             hover |-> <<data[i].model, data[i].type>>]])

\* lines 108-125
plot_condition_mean(data) ==
    Figure("bar:condition", "v", "skyblue", GroupMean(data, "condition"))

\* lines 135-153
plot_type_mean(data) ==
    Figure("bar:type", "h", "coral", GroupMean(data, "type"))

-----------------------------------------------------------------------------
(* The script, one run after the other.  Streamlit runs the script from its *)
(* first line to its last for the first page view and again for every      *)
(* widget interaction; st.button returns True in the run its click caused. *)

\* pd.read_csv: the rows of the file as a new DataFrame.
read_csv(f) == f.rows

\* line 9: df = pd.read_csv(...)
Load ==
    /\ pc = "start"
    /\ IF file.ok
       THEN /\ heap' = Append(heap, read_csv(file))
            /\ df' = Len(heap) + 1
            /\ loads' = loads + 1
            /\ pc' = "clean"
            /\ err' = err
       ELSE /\ err' = "FileNotFoundError"
            /\ pc' = "crashed"
            /\ UNCHANGED <<heap, df, loads>>
    /\ UNCHANGED <<file, df_clean, before, clicked, rendered, cleans, runs>>

\* Variant: the call returns a new DataFrame and leaves the one it was given
\* as it was.
Call_Copy(ref, next) ==
    LET r == cleaning(heap[ref])
    IN  /\ before' = heap[ref]
        /\ cleans' = cleans + 1
        /\ err' = r.err
        /\ IF r.err = ""
           THEN /\ heap' = Append(heap, r.data)
                /\ df_clean' = Len(heap) + 1
                /\ pc' = next
           ELSE /\ heap' = heap
                /\ df_clean' = df_clean
                /\ pc' = "crashed"

\* A call of cleaning on the DataFrame `ref`, binding df_clean to what it
\* returns; `next` is where the script goes on.
Call(ref, next) ==
    LET r == cleaning(heap[ref])
    IN  /\ before' = heap[ref]
        /\ heap' = [heap EXCEPT ![ref] = r.data]
        /\ cleans' = cleans + 1
        /\ err' = r.err
        /\ IF r.err = ""
           THEN df_clean' = ref /\ pc' = next
           ELSE df_clean' = df_clean /\ pc' = "crashed"

\* line 59: df_clean = cleaning(df)
Clean ==
    /\ pc = "clean"
    /\ Call(df, "btn1")
    /\ UNCHANGED <<file, df, clicked, rendered, loads, runs>>

\* if st.button(...): st.plotly_chart(fig)
Button(at, b, fig, next) ==
    /\ pc = at
    /\ rendered' = IF clicked = b THEN Append(rendered, fig) ELSE rendered
    /\ pc' = next
    /\ UNCHANGED <<file, heap, df, df_clean, before, err, clicked, loads,
                   cleans, runs>>

\* lines 101-102
ButtonScatter == Button("btn1", 1, plot_scatter(heap[df_clean]), "btn2")

\* Variant: the second button draws the chart of the third.
ButtonCondition_TypeChart ==
    Button("btn2", 2, plot_type_mean(heap[df_clean]), "btn3")

\* lines 128-129
ButtonCondition == Button("btn2", 2, plot_condition_mean(heap[df_clean]), "btn3")

\* lines 156-157
ButtonType == Button("btn3", 3, plot_type_mean(heap[df_clean]), "done")

\* Variant: the table is cached across runs; a click goes straight to the
\* buttons with the table of the run before.
Click_Cached(b) ==
    /\ pc = "done"
    /\ runs < MaxRuns
    /\ runs' = runs + 1
    /\ clicked' = b
    /\ pc' = "btn1"
    /\ rendered' = <<>>
    /\ UNCHANGED <<file, heap, df, df_clean, before, err, loads, cleans>>

\* The user presses button b of the page the last run drew: the script is
\* run again in a new namespace, and the page is drawn anew.
Click(b) ==
    /\ pc = "done"
    /\ runs < MaxRuns
    /\ runs' = runs + 1
    /\ clicked' = b
    /\ pc' = "start"
    /\ heap' = <<>>
    /\ df' = 0
    /\ df_clean' = 0
    /\ before' = <<>>
    /\ err' = ""
    /\ rendered' = <<>>
    /\ UNCHANGED <<file, loads, cleans>>

\* cleaning(df_clean): cleaning applied to the table it returned.
Reclean ==
    /\ pc = "btn1"
    /\ cleans = 1
    /\ Call(df_clean, "recleaned")
    /\ UNCHANGED <<file, df, clicked, rendered, loads, runs>>

-----------------------------------------------------------------------------
(* Inputs *)

Row(w, o, c, y, p, d, m, pr, cond, ty) ==
    [is_4wd |-> w, odometer |-> o, cylinders |-> c, model_year |-> y,
     paint_color |-> p, date_posted |-> d, model |-> m, price |-> pr,
     condition |-> cond, type |-> ty]

Tables(rows) == UNION {[1..n -> rows] : n \in 0..MaxRows}

\* The odometer, model_year and paint_color of a raw row: all missing, all
\* present, or a model_year that is no number beside a missing paint_color.
FillCases ==
    {<<NaN, NaN, NaN>>,
     <<Flt(7, 5), Flt(2010, 0), Str("red")>>,
     <<Flt(7, 5), Str("x"), NaN>>}

\* Raw rows for cleaning: is_4wd missing, 1 or 0; cylinders missing or not;
\* a date that parses or not; a model or none.
CleanRows ==
    {Row(w, f[1], c, f[2], f[3], d, m, IntV(100), Str("good"), Str("suv")) :
        w \in {NaN, Flt(1, 0), Flt(0, 0)},
        f \in FillCases,
        c \in {NaN, Flt(4, 0)},
        d \in {Str("2018-06-23"), Str("not-a-date")},
        m \in {NaN, Str("ford")}}

\* Cleaned rows for the chart builders: prices, conditions and types, the
\* last two possibly missing.
ChartRows ==
    {Row(Str("No"), IntV(7), IntV(4), IntV(2010), Str("red"),
         Timestamp("2018-06-23"), Str("ford"), pr, cond, ty) :
        pr \in {IntV(100), IntV(200), IntV(45)},
        cond \in {NaN, Str("good"), Str("fair")},
        ty \in {NaN, Str("suv"), Str("sedan")}}

\* Rows of the CSV file of a session.
FileRows ==
    {Row(w, Flt(7, 5), NaN, NaN, Str("red"), d, Str("ford"), pr, cond, Str("suv")) :
        w \in {NaN, Flt(1, 0)},
        d \in {Str("2018-06-23"), Str("not-a-date")},
        pr \in {IntV(100), IntV(200)},
        cond \in {Str("good"), Str("fair")}}

Fresh ==
    /\ err = ""
    /\ clicked = 0
    /\ rendered = <<>>
    /\ before = <<>>
    /\ runs = 1

\* A session: the first run of the script is about to start.
Init ==
    /\ file \in [ok : BOOLEAN, rows : Tables(FileRows)]
    /\ (~file.ok => file.rows = <<>>)
    /\ pc = "start"
    /\ heap = <<>>
    /\ df = 0
    /\ df_clean = 0
    /\ loads = 0
    /\ cleans = 0
    /\ Fresh

Next ==
    \/ Load
    \/ Clean
    \/ ButtonScatter
    \/ ButtonCondition
    \/ ButtonType
    \/ \E b \in 1..3 : Click(b)

Spec == Init /\ [][Next]_vars

\* cleaning() about to be called on any raw table, then on its own result.
InitClean ==
    /\ \E t \in Tables(CleanRows) :
          /\ file = [ok |-> TRUE, rows |-> t]
          /\ heap = <<t>>
    /\ pc = "clean"
    /\ df = 1
    /\ df_clean = 0
    /\ loads = 1
    /\ cleans = 0
    /\ Fresh

NextClean ==
    \/ Clean
    \/ Reclean

SpecClean == InitClean /\ [][NextClean]_vars

\* The three buttons on any cleaned table, whichever button was pressed.
InitChart ==
    /\ \E t \in Tables(ChartRows) :
          /\ file = [ok |-> TRUE, rows |-> t]
          /\ heap = <<t>>
          /\ before = t
    /\ pc = "btn1"
    /\ df = 1
    /\ df_clean = 1
    /\ loads = 1
    /\ cleans = 1
    /\ err = ""
    /\ clicked \in 0..3
    /\ rendered = <<>>
    /\ runs = 1

NextChart ==
    \/ ButtonScatter
    \/ ButtonCondition
    \/ ButtonType

SpecChart == InitChart /\ [][NextChart]_vars

-----------------------------------------------------------------------------
(* Properties of cleaning(), checked under SpecClean *)

\* The first call of cleaning has returned: before is the raw table, and
\* heap[df_clean] the table returned.
Returned == cleans = 1 /\ err = "" /\ df_clean # 0

Yes == Str("Yes")
No == Str("No")

\* C1 as stated: whenever cleaning completes, every row of the returned table
\* has is_4wd "Yes" or "No", whatever the raw value was.
C1_AnyRawValue ==
    Returned =>
        \A i \in DOMAIN heap[df_clean] : heap[df_clean][i].is_4wd \in {Yes, No}

\* C1 amended: whenever cleaning completes, a row whose raw is_4wd is 1 has
\* "Yes", a row whose raw is_4wd is missing has "No", and a row with any
\* other raw value keeps that value.
C1_OneOrMissing ==
    Returned =>
        \A i \in DOMAIN heap[df_clean] :
            LET raw == before[i].is_4wd
                out == heap[df_clean][i].is_4wd
            IN  /\ (raw = Flt(1, 0) => out = Yes)
                /\ (raw = NaN => out = No)
                /\ (raw \notin {Flt(1, 0), NaN} => out = raw)

\* A returned two-row table whose raw is_4wd were 1 and missing.
C1_Witness ==
    /\ Returned
    /\ Len(before) = 2
    /\ before[1].is_4wd = Flt(1, 0) /\ heap[df_clean][1].is_4wd = Yes
    /\ before[2].is_4wd = NaN /\ heap[df_clean][2].is_4wd = No

Filled == {"odometer", "cylinders", "model_year", "paint_color", "is_4wd"}

\* C2: whenever cleaning completes (on a raw table or on a cleaned one), no
\* row of the returned table has a missing odometer, cylinders, model_year,
\* paint_color or is_4wd.
C2_NoMissing ==
    (df_clean # 0 /\ err = "") =>
        \A i \in DOMAIN heap[df_clean] :
            \A col \in Filled : ~IsNa(heap[df_clean][i][col])

\* A returned table with a row whose five columns were all missing.
C2_Witness ==
    /\ Returned
    /\ \E i \in DOMAIN before :
          /\ \A col \in Filled : IsNa(before[i][col])
          /\ \A col \in Filled : ~IsNa(heap[df_clean][i][col])

\* C3: whenever cleaning completes, each of the five fields of each row is
\* decided by that row's raw field alone: is_4wd 1 gives "Yes" and missing
\* gives "No"; a missing odometer, cylinders or model_year gives 0; a missing
\* paint_color gives "random".
C3_FixedRule ==
    Returned =>
        \A i \in DOMAIN heap[df_clean] :
            LET raw == before[i]
                out == heap[df_clean][i]
            IN  /\ (raw.is_4wd = Flt(1, 0) => out.is_4wd = Yes)
                /\ (raw.is_4wd = NaN => out.is_4wd = No)
                /\ (raw.odometer = NaN => out.odometer = IntV(0))
                /\ (raw.cylinders = NaN => out.cylinders = IntV(0))
                /\ (raw.model_year = NaN => out.model_year = IntV(0))
                /\ (raw.paint_color = NaN => out.paint_color = Str("random"))

\* A returned table where a row with all five fields missing shares its
\* model with a row of 4 cylinders, and still gets 0 cylinders.
C3_Witness ==
    /\ Returned
    /\ Len(before) = 2
    /\ \A col \in Filled : before[1][col] = NaN
    /\ before[2].cylinders = Flt(4, 0)
    /\ before[2].model = before[1].model
    /\ heap[df_clean][1].is_4wd = No
    /\ heap[df_clean][1].odometer = IntV(0)
    /\ heap[df_clean][1].cylinders = IntV(0)
    /\ heap[df_clean][1].model_year = IntV(0)
    /\ heap[df_clean][1].paint_color = Str("random")
    /\ heap[df_clean][2].cylinders = IntV(4)

\* The first call of cleaning is over, by a return or by an exception.
Called == cleans = 1

CleaningErrors == {"DateParseError", "ValueError"}

\* C4 as stated: after the call, whether it returned or failed, the table
\* passed in holds the values it held before the call, and the table returned
\* is another object than the table passed in.
C4_Pure ==
    Called => /\ heap[df] = before
              /\ (err = "" => df_clean # df)

\* C4 amended: cleaning works in place.  When it returns, the table returned
\* is the very object passed in, and that object holds the cleaned values:
\* no missing value in the five filled columns, integers in the three
\* numeric ones, even where the raw table held none.
C4_InPlace ==
    (Called /\ err = "") =>
        /\ df_clean = df
        /\ \A i \in DOMAIN heap[df] :
              /\ \A col \in Filled : ~IsNa(heap[df][i][col])
              /\ \A col \in {"odometer", "cylinders", "model_year"} :
                    heap[df][i][col].kind = "int"

\* cleaning has returned, and the table passed in, which had a missing
\* paint_color, now has "random" there.
C4_Witness ==
    /\ Called /\ err = "" /\ df_clean = df
    /\ \E i \in DOMAIN before :
          /\ before[i].paint_color = NaN
          /\ heap[df][i].paint_color = Str("random")

\* C5 as stated: when a date does not parse or a numeric column cannot be
\* made an integer, no table is returned and no table keeps any of the fills
\* made before the failing step.
C5_NoPartial ==
    (Called /\ err \in CleaningErrors) =>
        /\ df_clean = 0
        /\ heap[df] = before

\* C5 amended: when a date does not parse or a numeric column cannot be made
\* an integer, cleaning raises and no table is returned; the table passed in
\* keeps the fills made before the failing step: is_4wd, odometer, model_year
\* and paint_color have no missing value left.
C5_FillsRemain ==
    (Called /\ err \in CleaningErrors) =>
        /\ df_clean = 0
        /\ \A i \in DOMAIN heap[df] :
              \A col \in Filled \ {"cylinders"} : ~IsNa(heap[df][i][col])

\* cleaning raised on a date, and the table passed in has the fills.
C5_Witness ==
    /\ Called /\ err = "DateParseError" /\ df_clean = 0
    /\ \E i \in DOMAIN before :
          /\ before[i].date_posted = Str("not-a-date")
          /\ before[i].is_4wd = NaN /\ heap[df][i].is_4wd = No
          /\ before[i].odometer = NaN /\ heap[df][i].odometer = Flt(0, 0)

\* C6: cleaning the table a call of cleaning returned completes too, and
\* leaves every row and column as it was.
C6_Idempotent ==
    cleans = 2 =>
        /\ pc = "recleaned"
        /\ err = ""
        /\ heap[df_clean] = before

\* A second call has returned a table holding "Yes", "No", 0 and "random".
C6_Witness ==
    /\ pc = "recleaned"
    /\ Len(heap[df_clean]) = 2
    /\ heap[df_clean][1].is_4wd = Yes
    /\ heap[df_clean][2].is_4wd = No
    /\ heap[df_clean][2].cylinders = IntV(0)
    /\ heap[df_clean][2].paint_color = Str("random")
    /\ heap[df_clean] = before

\* The table after the fills of lines 26-34, for the table cleaning was
\* called on.
AfterFills == FillPaint(FillZeros(Replace4wd(before)))

-----------------------------------------------------------------------------
(* Properties of the chart builders, checked under SpecChart *)

\* The rows of t whose column col holds the string k.
RowsOf(t, col, k) == {i \in DOMAIN t : t[i][col] = Str(k)}

\* The strings that occur in column col of t.
Occurring(t, col) == {k \in Range(KeyOrder) : RowsOf(t, col, k) # {}}

\* The bars of fig are the group means of price by column col of t: one bar
\* for each string of the column and none else, each bar the sum of the
\* prices of its rows divided by their number.
BarsAreMeans(fig, t, col) ==
    /\ {fig.marks[n].key : n \in DOMAIN fig.marks} = Occurring(t, col)
    /\ Len(fig.marks) = Cardinality(Occurring(t, col))
    /\ \A n \in DOMAIN fig.marks :
          LET bar == fig.marks[n]
              g == RowsOf(t, col, bar.key)
          IN  /\ bar.den > 0
              /\ bar.num * Cardinality(g) = bar.den * SumPrice(t, g)

\* C7: every bar chart drawn has exactly one bar for each condition (type)
\* that occurs in a row of the cleaned table, of the mean price of the rows
\* of that group, and no other bar; an empty table gives a chart of no bars.
C7_BarsAreGroupMeans ==
    \A n \in DOMAIN rendered :
        /\ (rendered[n].kind = "bar:condition" =>
                BarsAreMeans(rendered[n], heap[df_clean], "condition"))
        /\ (rendered[n].kind = "bar:type" =>
                BarsAreMeans(rendered[n], heap[df_clean], "type"))

\* Two rows of condition "good" priced 100 and 200, drawn as the one bar 150.
C7_Witness ==
    /\ Len(heap[df_clean]) = 2
    /\ heap[df_clean][1].condition = Str("good")
    /\ heap[df_clean][2].condition = Str("good")
    /\ heap[df_clean][1].price = IntV(100)
    /\ heap[df_clean][2].price = IntV(200)
    /\ Len(rendered) = 1
    /\ rendered[1].kind = "bar:condition"
    /\ rendered[1].marks = <<[key |-> "good", num |-> 150, den |-> 1]>>

-----------------------------------------------------------------------------
(* Properties of a session, checked under Spec *)

AtButtons == pc \in {"btn1", "btn2", "btn3", "done"}

\* C8 as stated: in a session the dataset is loaded once and cleaned once,
\* whatever is pressed.
C8_OnceInSession == loads <= 1 /\ cleans <= 1

\* C8 amended: every run of the script, the first one and the one each press
\* of a button starts, loads the dataset once and cleans it once before any
\* button is looked at; the table the chart builders read is never modified
\* after cleaning: in every run and at every button it is the result of
\* cleaning the file.
C8_OncePerRun ==
    /\ loads <= runs /\ cleans <= loads
    /\ (pc = "start" => loads = runs - 1 /\ cleans = runs - 1)
    /\ (AtButtons =>
            /\ loads = runs /\ cleans = runs
            /\ df_clean # 0
            /\ heap[df_clean] = cleaning(read_csv(file)).data)

\* The second run of a session is at its buttons, after a second load and a
\* second cleaning.
C8_Witness ==
    /\ runs = 2 /\ clicked = 3 /\ pc = "btn3"
    /\ loads = 2 /\ cleans = 2
    /\ Len(heap[df_clean]) = 2

\* The chart button b draws.
ChartOf(b) ==
    IF b = 1 THEN plot_scatter(heap[df_clean])
    ELSE IF b = 2 THEN plot_condition_mean(heap[df_clean])
    ELSE plot_type_mean(heap[df_clean])

\* C9: a run draws a chart only after its load and its cleaning have
\* succeeded and only for the button that was pressed: a run whose load or
\* cleaning failed draws nothing, a run draws at most one chart, and once the
\* pressed button is passed that chart is the one its builder makes of the
\* cleaned table.
C9_ChartOnlyOnTrigger ==
    /\ (rendered # <<>> =>
            /\ err = "" /\ df_clean # 0
            /\ loads = runs /\ cleans = runs
            /\ clicked \in 1..3
            /\ rendered = <<ChartOf(clicked)>>)
    /\ (pc = "crashed" => err # "" /\ rendered = <<>>)
    /\ (pc = "done" /\ clicked \in 1..3 => rendered = <<ChartOf(clicked)>>)

\* A run started by the second button has drawn the condition chart, with
\* two bars.
C9_Witness ==
    /\ pc = "done" /\ clicked = 2
    /\ rendered = <<plot_condition_mean(heap[df_clean])>>
    /\ Len(rendered[1].marks) = 2

====
